---- MODULE Spec2Model ----
(***************************************************************************)
(* Model of datatable's error objects (utils/exceptions.cc), of the        *)
(* ThreadJob driver (parallel/thread_job.{h,cc}) and of the thread-team    *)
(* failure protocol that binds them.                                       *)
(*                                                                         *)
(* The specifications share the variables:                                 *)
(*   ErrSpec   the Python error indicator, PyError and HidePythonError     *)
(*   OwnSpec   the references PyError objects hold, with move construction *)
(*   WarnSpec  Warning::emit                                               *)
(*   CharSpec  Error::operator<<(char)                                     *)
(*   StrSpec   escape_backticks                                            *)
(*   BuildSpec Error::operator<< and Error::to_string                      *)
(*   Spec      a thread team running ThreadJob::execute_in_current_thread  *)
(*   FairSpec  Spec with the fairness of thread scheduling                 *)
(*   ConvSpec  exception_to_python called with or without a thread team    *)
(***************************************************************************)
EXTENDS Integers, Sequences, FiniteSets, TLC

VARIABLES
    ambient,    \* the Python error indicator: [type, value, tb]
    progress,   \* dt::progress::manager: [cancelled |-> number of set_status_cancelled()]
    sink,       \* number of PyErr_SetString calls made by the error objects
    pyerr,      \* the PyError objects, in order of construction
    guards,     \* the live HidePythonError objects, innermost last
    ledger,     \* per PyError object: whose triple it was built with, and what
                \* its to_python() and destructor calls disposed of
    warnings,   \* the calls of PyErr_WarnEx made: [cls, msg]
    err,        \* an Error object: [pycls, msg]
    escIn,      \* argument of escape_backticks
    escOut,     \* result of escape_backticks
    job,        \* the ThreadJob: [cursor, aborted, abortCalls, overridesAbort]
    wk,         \* per worker thread: position in execute_in_current_thread and counters
    tasks,      \* per task: [yielded, executed]
    team,       \* the thread team: [size, slot, captured, discarded, reports, ...]
    build,      \* the build configuration: [debug]
    last        \* the operation performed last, with what it saw

vars == <<ambient, progress, sink, pyerr, guards, ledger, warnings,
          err, escIn, escOut,
          job, wk, tasks, team, build, last>>

errVars  == <<ambient, progress, sink, pyerr, guards, ledger, warnings>>
escVars  == <<err, escIn, escOut>>
teamVars == <<job, wk, tasks, team, build>>

----------------------------------------------------------------------------
(* Bounds                                                                  *)

MaxPyErrors  == 2
MaxGuards    == 1
MaxSinkCalls == 1
MaxWarnings  == 2

----------------------------------------------------------------------------
(* The Python error indicator                                              *)

NULL == "NULL"

PyExc_KeyboardInterrupt == "KeyboardInterrupt"
PyExc_AssertionError    == "AssertionError"
PyExc_Exception         == "Exception"
PyExc_RuntimeError      == "RuntimeError"
DtExc_ValueError        == "ValueError"

\* Nothing pending: PyErr_Fetch yields three NULLs.
NoError == [type |-> NULL, value |-> NULL, tb |-> NULL]

\* The errors host code may leave pending.  A pending error always has a
\* type; its value and traceback may be NULL.
HostErrors ==
    { [type |-> PyExc_KeyboardInterrupt, value |-> "v1", tb |-> "tb1"],
      [type |-> DtExc_ValueError,        value |-> "v2", tb |-> NULL] }

PyErr_Occurred(a) == a.type

\* PyErr_Fetch(&t, &v, &tb): hands out the pending triple and clears the
\* indicator.
PyErr_Fetch_Peek(a) == [got |-> a, ambient |-> a]

PyErr_Fetch(a) == [got |-> a, ambient |-> NoError]

\* PyErr_Restore(t, v, tb): replaces whatever is pending by the triple; a
\* NULL type clears the indicator.
PyErr_Restore(a, t, v, tb) ==
    IF t = NULL THEN NoError ELSE [type |-> t, value |-> v, tb |-> tb]

PyErr_Clear(a) == NoError

\* PyErr_SetString(cls, msg): replaces whatever is pending.
PyErr_SetString(a, cls, msg) == [type |-> cls, value |-> msg, tb |-> NULL]

Op(name) == [op |-> name]

----------------------------------------------------------------------------
(* Error                                                                   *)

\* The Error objects the thread reports: Error(pycls) with a message
\* streamed into it.
DtErrors == { [pycls |-> DtExc_ValueError, msg |-> "v2"] }

\* void Error::to_python() const noexcept: the indicator afterwards.
\* `copyFails`: copying the message out of the stream throws (bad_alloc),
\* which the catch clause turns into a RuntimeError.
Error_to_python(e, a, copyFails) ==
    IF ~copyFails
    THEN PyErr_SetString(a, e.pycls, e.msg)
    ELSE PyErr_SetString(a, PyExc_RuntimeError, "what")

----------------------------------------------------------------------------
(* PyError                                                                 *)

\* bool Error::is_keyboard_interrupt() const noexcept
Error_is_keyboard_interrupt(e) == FALSE

\* bool PyError::is_keyboard_interrupt() const noexcept
PyError_is_keyboard_interrupt_TypeNonNull(e) == e.exc_type # NULL

PyError_is_keyboard_interrupt(e) == e.exc_type = PyExc_KeyboardInterrupt

\* dt::progress::manager->set_status_cancelled()
set_status_cancelled(p) == [p EXCEPT !.cancelled = @ + 1]

\* PyError::PyError(): the object built, and the indicator and the progress
\* manager afterwards.
PyError_ctor(a, p) ==
    LET f == PyErr_Fetch(a)
        e == [alive |-> TRUE,
              exc_type |-> f.got.type,
              exc_value |-> f.got.value,
              exc_traceback |-> f.got.tb]
    IN  [obj      |-> e,
         ambient  |-> f.ambient,
         progress |-> IF PyError_is_keyboard_interrupt(e)
                      THEN set_status_cancelled(p) ELSE p]

\* void PyError::to_python() const noexcept
PyError_to_python_KeepHandles(e, a) ==
    [obj     |-> e,
     ambient |-> PyErr_Restore(a, e.exc_type, e.exc_value, e.exc_traceback)]

PyError_to_python(e, a) ==
    [obj     |-> [e EXCEPT !.exc_type = NULL, !.exc_value = NULL,
                           !.exc_traceback = NULL],
     ambient |-> PyErr_Restore(a, e.exc_type, e.exc_value, e.exc_traceback)]

\* PyError::~PyError(): the three handles are released (Py_XDECREF) and the
\* object is gone; nothing of it can be read any more.
PyError_dtor(e) ==
    [alive |-> FALSE, exc_type |-> NULL, exc_value |-> NULL,
     exc_traceback |-> NULL]

\* PyError::PyError(PyError&& other): the object built and `other`
\* afterwards.
PyError_move_KeepSource(other) ==
    [obj   |-> [alive |-> TRUE, exc_type |-> other.exc_type,
                exc_value |-> other.exc_value,
                exc_traceback |-> other.exc_traceback],
     other |-> other]

PyError_move(other) ==
    [obj   |-> [alive |-> TRUE, exc_type |-> other.exc_type,
                exc_value |-> other.exc_value,
                exc_traceback |-> other.exc_traceback],
     other |-> [other EXCEPT !.exc_type = NULL, !.exc_value = NULL,
                             !.exc_traceback = NULL]]

\* The object holds a reference: PyErr_Restore takes over and Py_XDECREF
\* releases the handles that are not null.
Holds(e) ==
    e.exc_type # NULL \/ e.exc_value # NULL \/ e.exc_traceback # NULL

\* The counters of the ledger stop at MaxCount.
MaxCount == 2

Bump(n) == IF n < MaxCount THEN n + 1 ELSE n

NewEntry(e, origin) ==
    [origin |-> IF Holds(e) THEN origin ELSE 0,
     restores |-> 0, handed |-> 0, released |-> 0]

----------------------------------------------------------------------------
(* Warning                                                                 *)

PyExc_FutureWarning    == "FutureWarning"
DtWrn_DatatableWarning == "DatatableWarning"

\* The Warning objects emitted: Warning(cls) with a message streamed into
\* it.
Warnings ==
    { [pycls |-> PyExc_FutureWarning,    msg |-> "w1"],
      [pycls |-> DtWrn_DatatableWarning, msg |-> "w2"] }

\* int PyErr_WarnEx(category, message, 1): normally the warning is issued
\* and 0 returned; when the `warnings` module turns warnings into errors
\* (`escalate`), the warning becomes the pending error and -1 is returned.
PyErr_WarnEx(a, category, message, escalate) ==
    IF escalate
    THEN [ret |-> -1,
          ambient |-> [type |-> category, value |-> message, tb |-> NULL]]
    ELSE [ret |-> 0, ambient |-> a]

\* void Warning::emit(): the call made to the warning channel, whether
\* emit() threw and the PyError it threw, and the indicator and the
\* progress manager afterwards.
Warning_emit_IgnoresResult(wn, a, p, escalate) ==
    LET r == PyErr_WarnEx(a, wn.pycls, wn.msg, escalate)
    IN  [call |-> [cls |-> wn.pycls, msg |-> wn.msg],
         installed |-> r.ambient,
         threw |-> FALSE,
         ambient |-> r.ambient, progress |-> p]

Warning_emit(wn, a, p, escalate) ==
    LET errstr == wn.msg
        r == PyErr_WarnEx(a, wn.pycls, errstr, escalate)
        c == PyError_ctor(r.ambient, p)
    IN  IF r.ret # 0
        THEN [call |-> [cls |-> wn.pycls, msg |-> errstr],
              installed |-> r.ambient,
              threw |-> TRUE, exc |-> c.obj,
              ambient |-> c.ambient, progress |-> c.progress]
        ELSE [call |-> [cls |-> wn.pycls, msg |-> errstr],
              installed |-> r.ambient,
              threw |-> FALSE,
              ambient |-> r.ambient, progress |-> p]

----------------------------------------------------------------------------
(* HidePythonError                                                         *)

\* HidePythonError::HidePythonError(): the guard built and the indicator
\* afterwards.  `entry` records the indicator as the constructor found it.
HidePythonError_ctor(a) ==
    IF PyErr_Occurred(a) # NULL
    THEN LET f == PyErr_Fetch(a)
         IN  [obj |-> [ptype_ |-> f.got.type, pvalue_ |-> f.got.value,
                       ptraceback_ |-> f.got.tb, entry |-> a],
              ambient |-> f.ambient]
    ELSE [obj |-> [ptype_ |-> NULL, pvalue_ |-> NULL, ptraceback_ |-> NULL,
                   entry |-> a],
          ambient |-> a]

\* HidePythonError::~HidePythonError(): the indicator afterwards.
HidePythonError_dtor_KeepInner(g, a) ==
    IF g.ptype_ # NULL /\ PyErr_Occurred(a) = NULL
    THEN PyErr_Restore(a, g.ptype_, g.pvalue_, g.ptraceback_)
    ELSE a

HidePythonError_dtor_AlwaysRestore(g, a) ==
    PyErr_Restore(a, g.ptype_, g.pvalue_, g.ptraceback_)

HidePythonError_dtor(g, a) ==
    IF g.ptype_ # NULL
    THEN PyErr_Restore(a, g.ptype_, g.pvalue_, g.ptraceback_)
    ELSE a

----------------------------------------------------------------------------
(* Characters and strings.  A character is its byte value (uint8_t), a     *)
(* string the sequence of its bytes.                                       *)

CH_tab       == 9
CH_newline   == 10
CH_return    == 13
CH_space     == 32
CH_zero      == 48
CH_backslash == 92
CH_backtick  == 96
CH_a         == 97
CH_n         == 110
CH_r         == 114
CH_t         == 116
CH_x         == 120

MaxPrefixLen == 1
MaxStrLen    == 3
MaxAppends   == 2

Bytes == 0..255

\* The characters the strings of the model are made of: the two special
\* ones, a letter and a blank.
StrAlphabet == {CH_backtick, CH_backslash, CH_a, CH_space}

RECURSIVE StringsOfLen(_)
StringsOfLen(n) ==
    IF n = 0 THEN {<<>>}
    ELSE {Append(str, c) : str \in StringsOfLen(n - 1), c \in StrAlphabet}

StringsUpTo(n) == UNION {StringsOfLen(k) : k \in 0..n}

\* uc >> 4 and uc & 15
HighNibble(uc) == uc \div 16
LowNibble(uc)  == uc % 16

\* static_cast<char>((d <= 9 ? '0' : 'a' - 10) + d)
HexDigit(d) == (IF d <= 9 THEN CH_zero ELSE CH_a - 10) + d

\* The condition of Error::operator<<(char) under which the character is
\* written with a leading backslash.
NeedsEscape(uc) ==
    uc < 32 \/ uc >= 128 \/ uc = CH_backtick \/ uc = CH_backslash

\* Error& Error::operator<<(char c): what is written to the stream.
RenderChar(c) ==
    IF NeedsEscape(c)
    THEN <<CH_backslash>> \o
         (IF c = CH_newline THEN <<CH_n>>
          ELSE IF c = CH_return THEN <<CH_r>>
          ELSE IF c = CH_tab THEN <<CH_t>>
          ELSE IF c = CH_backslash THEN <<CH_backslash>>
          ELSE IF c = CH_backtick THEN <<CH_backtick>>
          ELSE <<CH_backslash, CH_x,
                 HexDigit(HighNibble(c)), HexDigit(LowNibble(c))>>)
    ELSE <<c>>

\* Error& Error::operator<<(char c): the Error afterwards.
Error_append_char(e, c) == [e EXCEPT !.msg = @ \o RenderChar(c)]

CH_minus == 45

\* std::ostream << v for a non-negative integer: its decimal digits.
RECURSIVE Digits(_)
Digits(n) ==
    IF n < 10 THEN <<CH_zero + n>>
    ELSE Digits(n \div 10) \o <<CH_zero + (n % 10)>>

\* std::ostream << v for int64_t, int32_t, size_t, uint32_t.
StreamInteger(v) == IF v < 0 THEN <<CH_minus>> \o Digits(-v) ELSE Digits(v)

\* std::ostream << v for int8_t: int8_t is signed char, and the stream
\* inserts a signed char as one character.
StreamSignedChar(v) == <<(v + 256) % 256>>

\* The fragments streamed into an Error in the model: strings, 32-bit and
\* 8-bit integers, characters.
Fragments ==
    {[type |-> "string", v |-> str] : str \in {<<CH_a>>, <<CH_a, CH_backtick>>}}
      \cup {[type |-> "int32", v |-> n] : n \in {7, -12}}
      \cup {[type |-> "int8", v |-> n] : n \in {65}}
      \cup {[type |-> "char", v |-> c] : c \in {CH_a, CH_newline, 1}}

\* Error& Error::operator<<(T v): what is written to the stream.
Rendering(f) ==
    CASE f.type = "string" -> f.v
      [] f.type = "int32"  -> StreamInteger(f.v)
      [] f.type = "int8"   -> StreamSignedChar(f.v)
      [] f.type = "char"   -> RenderChar(f.v)

\* Error& Error::operator<<(T v): the Error afterwards.
Error_append(e, f) == [e EXCEPT !.msg = @ \o Rendering(f)]

\* std::string Error::to_string() const
Error_to_string(e) == e.msg

\* c == '`' || c == '\\'
IsSpecial_WithBlank(c) ==
    c = CH_backtick \/ c = CH_backslash \/ c = CH_space

IsSpecial(c) == c = CH_backtick \/ c = CH_backslash

\* The first loop of escape_backticks: the number of backticks and
\* backslashes.
CountSpecial(str) == Cardinality({i \in 1..Len(str) : IsSpecial(str[i])})

\* The second loop of escape_backticks, from position i on, appending to out.
RECURSIVE EscapeLoop(_, _, _)
EscapeLoop(str, i, out) ==
    IF i > Len(str) THEN out
    ELSE EscapeLoop(str, i + 1,
                    (IF IsSpecial(str[i]) THEN Append(out, CH_backslash)
                     ELSE out) \o <<str[i]>>)

RECURSIVE EscapeLoop_OnlyBackticks(_, _, _)
EscapeLoop_OnlyBackticks(str, i, out) ==
    IF i > Len(str) THEN out
    ELSE EscapeLoop_OnlyBackticks(str, i + 1,
                    (IF str[i] = CH_backtick THEN Append(out, CH_backslash)
                     ELSE out) \o <<str[i]>>)

\* std::string escape_backticks(const std::string& str)
escape_backticks_OnlyBackticks(str) ==
    IF CountSpecial(str) = 0 THEN str
    ELSE EscapeLoop_OnlyBackticks(str, 1, <<>>)

escape_backticks(str) ==
    IF CountSpecial(str) = 0 THEN str ELSE EscapeLoop(str, 1, <<>>)

----------------------------------------------------------------------------
(* exception_to_python                                                     *)

\* The bytes of the C strings that std::exception::what() returns in the
\* model.  "NULL" is the null pointer.
CStr(str) ==
    CASE str = ""       -> <<>>
      [] str = " \t\n\r" -> <<CH_space, CH_tab, CH_newline, CH_return>>
      [] str = "oops"   -> <<111, 111, 112, 115>>
      [] str = " x"     -> <<CH_space, CH_x>>

\* static bool is_string_empty(const char* msg) noexcept
is_string_empty_NullOnly(msg) == msg = NULL

is_string_empty(msg) ==
    IF msg = NULL THEN TRUE
    ELSE \A i \in 1..Len(CStr(msg)) :
            CStr(msg)[i] \in {CH_space, CH_tab, CH_newline, CH_return}

\* wassert(cond) of utils/assert.h: whether the failed assertion is
\* reported.  Only a debug build compiles the check in.
wassert(cond, b) == b.debug /\ ~cond

\* void exception_to_python(const std::exception& e) noexcept, called with
\* nthreads = dt::num_threads_in_team(): the indicator and the exception
\* afterwards, the number of PyErr_SetString calls made, and whether the
\* assertion on the team size was reported.
exception_to_python_NoCheck(e, a, nthreads, b, copyFails) ==
    [flagged |-> FALSE, ambient |-> a, obj |-> e, set |-> 0]

exception_to_python(e, a, nthreads, b, copyFails) ==
    LET flagged == wassert(nthreads = 0, b)
    IN  IF e.kind = "Error"
        THEN [flagged |-> flagged,
              ambient |-> Error_to_python(e, a, copyFails),
              obj     |-> e,
              set     |-> 1]
        ELSE IF e.kind = "PyError"
        THEN LET r == PyError_to_python(e, a)
             IN  [flagged |-> flagged, ambient |-> r.ambient,
                  obj |-> r.obj, set |-> 0]
        ELSE IF PyErr_Occurred(a) = NULL
        THEN [flagged |-> flagged,
              ambient |-> IF is_string_empty(e.what)
                          THEN PyErr_SetString(a, PyExc_Exception,
                                               "unknown error")
                          ELSE PyErr_SetString(a, PyExc_Exception, e.what),
              obj     |-> e,
              set     |-> 1]
        ELSE [flagged |-> flagged, ambient |-> a, obj |-> e, set |-> 0]

----------------------------------------------------------------------------
(* ThreadJob and the thread team                                           *)

NumTasks    == 3
NumWorkers  == 2
MaxTeamSize == 2

\* The null task pointer, and no exception.
NoTask      == 0
NoException == [kind |-> "none"]

Tasks   == 1..NumTasks
Workers == 1..NumWorkers

\* thread_task* ThreadJob::get_next_task(size_t thread_index) of a job that
\* holds NumTasks tasks behind one atomic cursor: the task handed out (null
\* once none is left, or once a job that implements abort_execution() was
\* aborted) and the job afterwards.
get_next_task(j, thread_index) ==
    IF j.aborted \/ j.cursor >= NumTasks
    THEN [task |-> NoTask, job |-> j]
    ELSE [task |-> j.cursor + 1, job |-> [j EXCEPT !.cursor = @ + 1]]

\* void ThreadJob::abort_execution(): the default implementation does
\* nothing; a job that overrides it stops handing out tasks.
abort_execution_Cancels(j) ==
    [j EXCEPT !.aborted = TRUE, !.abortCalls = @ + 1]

abort_execution(j) ==
    IF j.overridesAbort
    THEN [j EXCEPT !.aborted = TRUE, !.abortCalls = @ + 1]
    ELSE [j EXCEPT !.abortCalls = @ + 1]

\* The Error objects a task's execute() may throw.
ThrownErrors ==
    {[kind |-> "Error", pycls |-> e.pycls, msg |-> e.msg] : e \in DtErrors}

\* size_t dt::this_thread_index(): the index of thread w in its team.
this_thread_index(w) == w

\* `ith` is the driver's local variable, `asked` the index of its latest
\* get_next_task() call.
WorkerInit ==
    [pc |-> "idle", ith |-> 0, asked |-> 0, task |-> NoTask,
     polls |-> 0, execs |-> 0,
     gotNull |-> FALSE, raised |-> FALSE, exc |-> NoException]

\* ThreadJob::execute_in_current_thread(), after get_next_task(ith):
\* `if (!task) break;`
DriverAfterPoll_Inverted(task) ==
    IF task # NoTask THEN "returned" ELSE "exec"

DriverAfterPoll(task) == IF task = NoTask THEN "returned" ELSE "exec"

\* ThreadJob::execute_in_current_thread(), after task->execute(nullptr):
\* the loop goes on when execute() returns; nothing catches what it
\* throws, so the driver is left and the exception reaches its caller.
DriverAfterExecute_Catch(threw) == "pull"

DriverAfterExecute_SameTask(threw) == IF threw THEN "threw" ELSE "exec"

DriverAfterExecute(threw) == IF threw THEN "threw" ELSE "pull"

----------------------------------------------------------------------------
(* ErrSpec: one thread working on the error indicator                      *)

IdleEsc  == /\ err = [pycls |-> NULL, msg |-> <<>>]
            /\ escIn = <<>>
            /\ escOut = <<>>

IdleTeam == /\ job = [cursor |-> 0, aborted |-> FALSE, abortCalls |-> 0,
                      overridesAbort |-> FALSE]
            /\ wk = <<>>
            /\ tasks = <<>>
            /\ team = [size |-> 0, started |-> FALSE]
            /\ build = [debug |-> TRUE]

IdleErr  == /\ ambient = NoError
            /\ progress = [cancelled |-> 0]
            /\ sink = 0
            /\ pyerr = <<>>
            /\ guards = <<>>
            /\ ledger = <<>>
            /\ warnings = <<>>

ErrInit ==
    /\ IdleErr
    /\ IdleEsc
    /\ IdleTeam
    /\ last = Op("init")

\* Host code raises: an error becomes pending (as PyErr_WarnEx does when
\* warnings are errors, or any failing Python call).
HostRaise ==
    \E e \in HostErrors :
        /\ ambient' = PyErr_Restore(ambient, e.type, e.value, e.tb)
        /\ last' = Op("raise")
        /\ UNCHANGED <<progress, sink, pyerr, guards, ledger, warnings>>
        /\ UNCHANGED escVars /\ UNCHANGED teamVars

\* Host code discards the pending error (PyErr_Clear).
HostClear ==
    /\ ambient.type # NULL
    /\ ambient' = PyErr_Clear(ambient)
    /\ last' = Op("clear")
    /\ UNCHANGED <<progress, sink, pyerr, guards, ledger, warnings>>
    /\ UNCHANGED escVars /\ UNCHANGED teamVars

\* An Error is converted: error.to_python();
ErrorToPython ==
    /\ sink < MaxSinkCalls
    /\ \E e \in DtErrors, copyFails \in BOOLEAN :
           ambient' = Error_to_python(e, ambient, copyFails)
    /\ sink' = sink + 1
    /\ last' = Op("error_to_python")
    /\ UNCHANGED <<progress, pyerr, guards, ledger, warnings>>
    /\ UNCHANGED escVars /\ UNCHANGED teamVars

\* PyError e;
CaptureCore ==
    /\ Len(pyerr) < MaxPyErrors
    /\ LET r == PyError_ctor(ambient, progress)
       IN  /\ pyerr' = Append(pyerr, r.obj)
           /\ ambient' = r.ambient
           /\ progress' = r.progress
           /\ last' = [op |-> "capture", id |-> Len(pyerr) + 1,
                       before |-> ambient,
                       cancelledBefore |-> progress.cancelled,
                       sinkBefore |-> sink,
                       is_keyboard_interrupt |->
                           PyError_is_keyboard_interrupt(r.obj)]
    /\ UNCHANGED <<sink, guards, warnings>>
    /\ UNCHANGED escVars /\ UNCHANGED teamVars

Capture == CaptureCore /\ UNCHANGED ledger

\* e.to_python();
RestoreCore(i) ==
    /\ pyerr[i].alive
    /\ LET r == PyError_to_python(pyerr[i], ambient)
       IN  /\ pyerr' = [pyerr EXCEPT ![i] = r.obj]
           /\ ambient' = r.ambient
    /\ last' = [op |-> "restore", id |-> i,
                after |-> IF last.op = "capture"
                          THEN [op |-> "capture", id |-> last.id,
                                before |-> last.before]
                          ELSE Op(last.op)]
    /\ UNCHANGED <<progress, sink, guards, warnings>>
    /\ UNCHANGED escVars /\ UNCHANGED teamVars

Restore(i) == RestoreCore(i) /\ UNCHANGED ledger

\* e goes out of scope.
DestroyCore(i) ==
    /\ pyerr[i].alive
    /\ pyerr' = [pyerr EXCEPT ![i] = PyError_dtor(@)]
    /\ last' = Op("destroy")
    /\ UNCHANGED <<ambient, progress, sink, guards, warnings>>
    /\ UNCHANGED escVars /\ UNCHANGED teamVars

Destroy(i) == DestroyCore(i) /\ UNCHANGED ledger

\* HidePythonError h;
GuardEnter ==
    /\ Len(guards) < MaxGuards
    /\ LET r == HidePythonError_ctor(ambient)
       IN  /\ guards' = Append(guards, r.obj)
           /\ ambient' = r.ambient
    /\ last' = [op |-> "guard_enter", before |-> ambient]
    /\ UNCHANGED <<progress, sink, pyerr, ledger, warnings>>
    /\ UNCHANGED escVars /\ UNCHANGED teamVars

\* The innermost guard goes out of scope.
GuardExit ==
    /\ Len(guards) > 0
    /\ LET g == guards[Len(guards)]
       IN  /\ ambient' = HidePythonError_dtor(g, ambient)
           /\ last' = [op |-> "guard_exit", before |-> ambient,
                       entry |-> g.entry]
    /\ guards' = SubSeq(guards, 1, Len(guards) - 1)
    /\ UNCHANGED <<progress, sink, pyerr, ledger, warnings>>
    /\ UNCHANGED escVars /\ UNCHANGED teamVars

ErrNext ==
    \/ HostRaise
    \/ HostClear
    \/ ErrorToPython
    \/ Capture
    \/ \E i \in 1..Len(pyerr) : Restore(i)
    \/ \E i \in 1..Len(pyerr) : Destroy(i)
    \/ GuardEnter
    \/ GuardExit

ErrSpec == ErrInit /\ [][ErrNext]_vars

----------------------------------------------------------------------------
(* OwnSpec: PyError objects are built from the pending error or from each  *)
(* other, restored and destroyed, and the ledger follows the references    *)
(* they hold: ledger[i].origin is the capture whose triple object i was    *)
(* built with (0 when it was built empty).                                 *)

\* PyError e;
OwnCapture ==
    /\ CaptureCore
    /\ ledger' = Append(ledger, NewEntry(pyerr'[Len(pyerr')], Len(pyerr')))

\* PyError e2(std::move(e));
OwnMove(i) ==
    /\ Len(pyerr) < MaxPyErrors
    /\ pyerr[i].alive
    /\ LET r == PyError_move(pyerr[i])
       IN  /\ pyerr' = Append([pyerr EXCEPT ![i] = r.other], r.obj)
           /\ ledger' = Append(ledger, NewEntry(r.obj, ledger[i].origin))
    /\ last' = [op |-> "move", id |-> Len(pyerr) + 1, from |-> i]
    /\ UNCHANGED <<ambient, progress, sink, guards, warnings>>
    /\ UNCHANGED escVars /\ UNCHANGED teamVars

\* e.to_python();
OwnRestore(i) ==
    /\ RestoreCore(i)
    /\ ledger' = [ledger EXCEPT
                     ![i].restores = Bump(@),
                     ![i].handed = IF Holds(pyerr[i]) THEN Bump(@) ELSE @]

\* e goes out of scope.
OwnDestroy(i) ==
    /\ DestroyCore(i)
    /\ ledger' = [ledger EXCEPT
                     ![i].released = IF Holds(pyerr[i]) THEN Bump(@) ELSE @]

OwnNext ==
    \/ HostRaise
    \/ HostClear
    \/ OwnCapture
    \/ \E i \in 1..Len(pyerr) : OwnMove(i)
    \/ \E i \in 1..Len(pyerr) : OwnRestore(i)
    \/ \E i \in 1..Len(pyerr) : OwnDestroy(i)

OwnSpec == ErrInit /\ [][OwnNext]_vars

----------------------------------------------------------------------------
(* WarnSpec: warnings are emitted; the caller of an emit() that threw      *)
(* catches the PyError, converts it back or lets it go.                    *)

\* warning.emit();
Emit ==
    /\ Len(warnings) < MaxWarnings
    /\ Len(pyerr) < MaxPyErrors
    /\ \E wn \in Warnings, escalate \in BOOLEAN :
          LET r == Warning_emit(wn, ambient, progress, escalate)
          IN  /\ warnings' = Append(warnings, r.call)
              /\ ambient' = r.ambient
              /\ progress' = r.progress
              /\ pyerr' = IF r.threw THEN Append(pyerr, r.exc) ELSE pyerr
              /\ last' = [op |-> "emit", w |-> wn, escalate |-> escalate,
                          threw |-> r.threw, installed |-> r.installed,
                          before |-> ambient,
                          callsBefore |-> Len(warnings),
                          objectsBefore |-> Len(pyerr)]
    /\ UNCHANGED <<sink, guards, ledger>>
    /\ UNCHANGED escVars /\ UNCHANGED teamVars

WarnNext ==
    \/ HostRaise
    \/ HostClear
    \/ Emit
    \/ \E i \in 1..Len(pyerr) : Restore(i)
    \/ \E i \in 1..Len(pyerr) : Destroy(i)

WarnSpec == ErrInit /\ [][WarnNext]_vars

----------------------------------------------------------------------------
(* CharSpec: one character is streamed into an Error                       *)

CharInit ==
    /\ IdleErr
    /\ IdleTeam
    /\ err \in {[pycls |-> DtExc_ValueError, msg |-> m] :
                    m \in StringsUpTo(MaxPrefixLen)}
    /\ escIn = <<>>
    /\ escOut = <<>>
    /\ last = Op("init")

\* error << c;
AppendChar ==
    /\ last.op = "init"
    /\ \E c \in Bytes :
          /\ err' = Error_append_char(err, c)
          /\ last' = [op |-> "append_char", c |-> c, before |-> err.msg]
    /\ UNCHANGED <<escIn, escOut>>
    /\ UNCHANGED errVars /\ UNCHANGED teamVars

CharNext == AppendChar

CharSpec == CharInit /\ [][CharNext]_vars

----------------------------------------------------------------------------
(* StrSpec: escape_backticks is applied to a string                        *)

StrInit ==
    /\ IdleErr
    /\ IdleTeam
    /\ err = [pycls |-> NULL, msg |-> <<>>]
    /\ escIn \in StringsUpTo(MaxStrLen)
    /\ escOut = <<>>
    /\ last = Op("init")

\* out = escape_backticks(str);
EscapeBackticks ==
    /\ last.op = "init"
    /\ escOut' = escape_backticks(escIn)
    /\ last' = Op("escape")
    /\ UNCHANGED <<err, escIn>>
    /\ UNCHANGED errVars /\ UNCHANGED teamVars

StrNext == EscapeBackticks

StrSpec == StrInit /\ [][StrNext]_vars

----------------------------------------------------------------------------
(* BuildSpec: an Error of some class is built by streaming fragments into  *)
(* it, and read with to_string()                                           *)

BuildInit ==
    /\ IdleErr
    /\ IdleTeam
    /\ \E cls \in {DtExc_ValueError, PyExc_RuntimeError} :
          /\ err = [pycls |-> cls, msg |-> <<>>]
          /\ last = [op |-> "new", frags |-> <<>>, pycls |-> cls]
    /\ escIn = <<>>
    /\ escOut = <<>>

\* error << v;
BuildAppend ==
    /\ Len(last.frags) < MaxAppends
    /\ \E f \in Fragments :
          /\ err' = Error_append(err, f)
          /\ last' = [op |-> "append", frags |-> Append(last.frags, f),
                      pycls |-> last.pycls]
    /\ UNCHANGED <<escIn, escOut>>
    /\ UNCHANGED errVars /\ UNCHANGED teamVars

\* str = error.to_string();
BuildToString ==
    /\ escOut' = Error_to_string(err)
    /\ last' = [op |-> "to_string", frags |-> last.frags,
                pycls |-> last.pycls]
    /\ UNCHANGED <<err, escIn>>
    /\ UNCHANGED errVars /\ UNCHANGED teamVars

BuildNext ==
    \/ BuildAppend
    \/ BuildToString

BuildSpec == BuildInit /\ [][BuildNext]_vars

----------------------------------------------------------------------------
(* Spec: a team of NumWorkers threads runs a job of NumTasks tasks, each   *)
(* thread through execute_in_current_thread(); the caller of the driver    *)
(* catches what it throws, and the controlling thread reports the          *)
(* surviving exception when the team is empty.  The build is a debug       *)
(* build: the assertion of exception_to_python() is compiled in.           *)

Init ==
    /\ IdleErr
    /\ IdleEsc
    /\ \E o \in BOOLEAN :
          job = [cursor |-> 0, aborted |-> FALSE, abortCalls |-> 0,
                 overridesAbort |-> o]
    /\ wk = [w \in Workers |-> WorkerInit]
    /\ tasks = [t \in Tasks |-> [yielded |-> 0, executed |-> 0]]
    /\ team = [size |-> 0, started |-> FALSE, joined |-> FALSE,
               slot |-> NoException, first |-> NoException, firstBy |-> 0, abortBy |-> 0,
               captured |-> 0, discarded |-> 0, reports |-> 0,
               reported |-> NoException]
    /\ build = [debug |-> TRUE]
    /\ last = Op("init")

\* The controlling thread starts the parallel region: every worker joins
\* the team and enters execute_in_current_thread():
\* size_t ith = dt::this_thread_index();
StartTeam ==
    /\ ~team.started
    /\ team' = [team EXCEPT !.started = TRUE, !.size = NumWorkers]
    /\ wk' = [w \in Workers |->
                 [wk[w] EXCEPT !.pc = "pull", !.ith = this_thread_index(w)]]
    /\ last' = Op("start")
    /\ UNCHANGED <<job, tasks, build>>
    /\ UNCHANGED errVars /\ UNCHANGED escVars

\* auto task = get_next_task(ith); if (!task) break;
Pull(w) ==
    /\ wk[w].pc = "pull"
    /\ LET r == get_next_task(job, wk[w].ith)
       IN  /\ job' = r.job
           /\ wk' = [wk EXCEPT ![w].task = r.task,
                               ![w].asked = wk[w].ith,
                               ![w].polls = @ + 1,
                               ![w].gotNull = (r.task = NoTask),
                               ![w].pc = DriverAfterPoll(r.task)]
           /\ tasks' = IF r.task = NoTask THEN tasks
                       ELSE [tasks EXCEPT ![r.task].yielded = @ + 1]
    /\ last' = Op("step")
    /\ UNCHANGED <<team, build>>
    /\ UNCHANGED errVars /\ UNCHANGED escVars

\* task->execute(nullptr) returns.
ExecuteOk(w) ==
    /\ wk[w].pc = "exec"
    /\ tasks' = [tasks EXCEPT ![wk[w].task].executed = @ + 1]
    /\ wk' = [wk EXCEPT ![w].execs = @ + 1,
                        ![w].pc = DriverAfterExecute(FALSE)]
    /\ last' = Op("step")
    /\ UNCHANGED <<job, team, build>>
    /\ UNCHANGED errVars /\ UNCHANGED escVars

\* task->execute(nullptr) throws an Error.
ExecuteThrows(w) ==
    /\ wk[w].pc = "exec"
    /\ tasks' = [tasks EXCEPT ![wk[w].task].executed = @ + 1]
    /\ \E e \in ThrownErrors :
          wk' = [wk EXCEPT ![w].execs = @ + 1,
                           ![w].raised = TRUE,
                           ![w].exc = e,
                           ![w].pc = DriverAfterExecute(TRUE)]
    /\ last' = Op("step")
    /\ UNCHANGED <<job, team, build>>
    /\ UNCHANGED errVars /\ UNCHANGED escVars

\* task->execute(nullptr) finds a Python error pending and throws
\* PyError().
ExecuteThrowsPyError(w) ==
    /\ wk[w].pc = "exec"
    /\ tasks' = [tasks EXCEPT ![wk[w].task].executed = @ + 1]
    /\ \E h \in HostErrors :
          LET r == PyError_ctor(PyErr_Restore(ambient, h.type, h.value, h.tb),
                                progress)
          IN  /\ ambient' = r.ambient
              /\ progress' = r.progress
              /\ wk' = [wk EXCEPT ![w].execs = @ + 1,
                                  ![w].raised = TRUE,
                                  ![w].exc = [kind |-> "PyError"] @@ r.obj,
                                  ![w].pc = DriverAfterExecute(TRUE)]
    /\ last' = Op("step")
    /\ UNCHANGED <<job, team, build, sink, pyerr, guards, ledger, warnings>>
    /\ UNCHANGED escVars

\* The caller of the driver catches the exception: the first one caught is
\* kept and the job is told to abort; a later one is dropped.
HandleException(w) ==
    /\ wk[w].pc = "threw"
    /\ IF team.slot = NoException
       THEN /\ team' = [team EXCEPT !.slot = wk[w].exc,
                                    !.captured = @ + 1,
                                    !.first = IF team.captured = 0
                                              THEN wk[w].exc ELSE @,
                                    !.firstBy = IF team.captured = 0
                                                THEN w ELSE @,
                                    !.abortBy = w]
            /\ job' = abort_execution(job)
       ELSE /\ team' = [team EXCEPT !.captured = @ + 1,
                                    !.discarded = @ + 1]
            /\ job' = job
    /\ wk' = [wk EXCEPT ![w].pc = "handled", ![w].exc = NoException]
    /\ last' = Op("step")
    /\ UNCHANGED <<tasks, build>>
    /\ UNCHANGED errVars /\ UNCHANGED escVars

\* The worker leaves the team.
Leave(w) ==
    /\ wk[w].pc \in {"returned", "handled"}
    /\ wk' = [wk EXCEPT ![w].pc = "left"]
    /\ team' = [team EXCEPT !.size = @ - 1]
    /\ last' = Op("step")
    /\ UNCHANGED <<job, tasks, build>>
    /\ UNCHANGED errVars /\ UNCHANGED escVars

\* The team is empty and an exception was kept: the controlling thread
\* converts it with exception_to_python().
Report ==
    /\ team.started /\ ~team.joined
    /\ team.size = 0
    /\ team.slot # NoException
    /\ \E copyFails \in BOOLEAN :
          LET r == exception_to_python(team.slot, ambient, team.size, build,
                                       copyFails)
          IN  /\ ambient' = r.ambient
              /\ sink' = sink + r.set
              /\ last' = [op |-> "exception_to_python", by |-> "controller",
                          e |-> team.slot, before |-> ambient,
                          nthreads |-> team.size, flagged |-> r.flagged]
    /\ team' = [team EXCEPT !.joined = TRUE, !.reports = @ + 1,
                            !.reported = team.slot, !.slot = NoException]
    /\ UNCHANGED <<job, wk, tasks, build, progress, pyerr, guards, ledger,
                   warnings>>
    /\ UNCHANGED escVars

\* The team is empty and no exception was kept: the parallel region is over.
JoinQuiet ==
    /\ team.started /\ ~team.joined
    /\ team.size = 0
    /\ team.slot = NoException
    /\ team' = [team EXCEPT !.joined = TRUE]
    /\ last' = Op("join")
    /\ UNCHANGED <<job, wk, tasks, build>>
    /\ UNCHANGED errVars /\ UNCHANGED escVars

WorkerStep(w) ==
    \/ Pull(w)
    \/ ExecuteOk(w)
    \/ ExecuteThrows(w)
    \/ ExecuteThrowsPyError(w)
    \/ HandleException(w)
    \/ Leave(w)

Next ==
    \/ StartTeam
    \/ \E w \in Workers : WorkerStep(w)
    \/ Report
    \/ JoinQuiet

Spec == Init /\ [][Next]_vars

\* Every thread that can take a step eventually takes one.
FairSpec ==
    /\ Spec
    /\ WF_vars(StartTeam)
    /\ \A w \in Workers : WF_vars(WorkerStep(w))

----------------------------------------------------------------------------
(* ConvSpec: exception_to_python() is called on some exception while       *)
(* threads join and leave the team.                                        *)

\* The exceptions handed to exception_to_python(): an Error, a PyError
\* that captured a Python error, or another std::exception with its what().
Convertible ==
    ThrownErrors
      \cup {[kind |-> "PyError"] @@ PyError_ctor(h, [cancelled |-> 0]).obj :
                h \in HostErrors}
      \cup {[kind |-> "std", what |-> str] :
                str \in {NULL, "", " \t\n\r", "oops", " x"}}

ConvInit ==
    /\ IdleErr
    /\ IdleEsc
    /\ job = [cursor |-> 0, aborted |-> FALSE, abortCalls |-> 0,
              overridesAbort |-> FALSE]
    /\ wk = <<>>
    /\ tasks = <<>>
    /\ team = [size |-> 0, started |-> FALSE]
    /\ \E d \in BOOLEAN : build = [debug |-> d]
    /\ last = Op("init")

\* A thread joins the team: dt::num_threads_in_team() grows.
ThreadJoinsTeam ==
    /\ team.size < MaxTeamSize
    /\ team' = [team EXCEPT !.size = @ + 1]
    /\ last' = Op("join_team")
    /\ UNCHANGED <<job, wk, tasks, build>>
    /\ UNCHANGED errVars /\ UNCHANGED escVars

\* A thread leaves the team.
ThreadLeavesTeam ==
    /\ team.size > 0
    /\ team' = [team EXCEPT !.size = @ - 1]
    /\ last' = Op("leave_team")
    /\ UNCHANGED <<job, wk, tasks, build>>
    /\ UNCHANGED errVars /\ UNCHANGED escVars

\* catch (const std::exception& e) { exception_to_python(e); }
Convert ==
    /\ sink < MaxSinkCalls
    /\ \E e \in Convertible, copyFails \in BOOLEAN :
          LET r == exception_to_python(e, ambient, team.size, build, copyFails)
          IN  /\ ambient' = r.ambient
              /\ sink' = sink + r.set
              /\ last' = [op |-> "exception_to_python", by |-> "other",
                          e |-> e, before |-> ambient,
                          nthreads |-> team.size, flagged |-> r.flagged]
    /\ UNCHANGED <<progress, pyerr, guards, ledger, warnings>>
    /\ UNCHANGED escVars /\ UNCHANGED teamVars

ConvNext ==
    \/ HostRaise
    \/ HostClear
    \/ ThreadJoinsTeam
    \/ ThreadLeavesTeam
    \/ Convert

ConvSpec == ConvInit /\ [][ConvNext]_vars

----------------------------------------------------------------------------
(* Properties of ErrSpec                                                   *)

\* C1: a HidePythonError built while error A was pending leaves A pending
\* when it is destroyed, whatever the code inside its scope raised, cleared
\* or left pending; and right after its construction nothing is pending.
C1_GuardRestoresPending ==
    /\ (last.op = "guard_exit" /\ last.entry.type # NULL)
           => ambient = last.entry
    /\ last.op = "guard_enter" => ambient = NoError

\* The guard was built with A pending and is destroyed with another error B
\* pending: A is pending afterwards.
C1_Witness ==
    /\ last.op = "guard_exit"
    /\ last.entry.type # NULL
    /\ last.before.type # NULL
    /\ last.before # last.entry
    /\ ambient = last.entry

\* C2: PyError() immediately followed by to_python() on the object built
\* leaves the error indicator as it was before the capture (a pending triple
\* or nothing), and the object's three handles are NULL.
C2_CaptureRestoreRoundTrip ==
    (last.op = "restore" /\ last.after.op = "capture"
                         /\ last.after.id = last.id)
        => /\ ambient = last.after.before
           /\ pyerr[last.id].exc_type = NULL
           /\ pyerr[last.id].exc_value = NULL
           /\ pyerr[last.id].exc_traceback = NULL

\* A pending error was captured and restored at once.
C2_Witness ==
    /\ last.op = "restore"
    /\ last.after.op = "capture"
    /\ last.after.id = last.id
    /\ last.after.before.type # NULL
    /\ ambient = last.after.before

\* C3: PyError() answers is_keyboard_interrupt() with TRUE exactly when the
\* pending type it captured is KeyboardInterrupt; it then calls
\* set_status_cancelled() once, and otherwise not at all; it installs nothing
\* through PyErr_SetString in either case.  A plain Error answers FALSE
\* whatever its class.
C3_CancellationClassification ==
    /\ last.op = "capture" =>
          /\ last.is_keyboard_interrupt
                 <=> (last.before.type = PyExc_KeyboardInterrupt)
          /\ progress.cancelled = last.cancelledBefore
                 + (IF last.before.type = PyExc_KeyboardInterrupt
                    THEN 1 ELSE 0)
          /\ sink = last.sinkBefore
    /\ \A cls \in {PyExc_KeyboardInterrupt, DtExc_ValueError, NULL} :
          ~Error_is_keyboard_interrupt([pycls |-> cls, msg |-> "v1"])

\* A pending KeyboardInterrupt was captured and the progress manager told.
C3_Witness ==
    /\ last.op = "capture"
    /\ last.before.type = PyExc_KeyboardInterrupt
    /\ last.is_keyboard_interrupt
    /\ progress.cancelled = last.cancelledBefore + 1

\* C13 as stated: whatever was pending when a HidePythonError was built,
\* an error or nothing, and whatever its scope raised or cleared, the error
\* indicator after its destruction is as it was at its construction.
C13_GuardIsSideEffectFree ==
    last.op = "guard_exit" => ambient = last.entry

\* C13 (amended): a guard built with an error pending leaves that error
\* pending when it is destroyed; a guard built with nothing pending leaves
\* the indicator as its scope left it.
C13_GuardFrame ==
    last.op = "guard_exit" =>
        ambient = IF last.entry.type # NULL THEN last.entry ELSE last.before

\* The guard was built with nothing pending, its scope left an error
\* pending, and that error is still pending after the guard.
C13_Witness ==
    /\ last.op = "guard_exit"
    /\ last.entry = NoError
    /\ last.before.type # NULL
    /\ ambient = last.before

\* C14: PyError() takes over the pending triple and leaves nothing
\* pending; built with nothing pending, it holds three null handles and the
\* error indicator is as it was.
C14_CaptureTakesOwnership ==
    last.op = "capture" =>
        /\ ambient = NoError
        /\ pyerr[last.id].alive
        /\ pyerr[last.id].exc_type = last.before.type
        /\ pyerr[last.id].exc_value = last.before.value
        /\ pyerr[last.id].exc_traceback = last.before.tb
        /\ last.before.type = NULL =>
              /\ ~Holds(pyerr[last.id])
              /\ ambient = last.before

\* A pending error was captured: the object holds it, nothing is pending.
C14_Witness ==
    /\ last.op = "capture"
    /\ last.before.type # NULL
    /\ pyerr[last.id].exc_type = last.before.type
    /\ ambient = NoError

----------------------------------------------------------------------------
(* Properties of WarnSpec                                                  *)

\* C19: emit() hands the class and the message of the warning to
\* PyErr_WarnEx once; it throws exactly when PyErr_WarnEx turned the
\* warning into an error, and then the PyError thrown holds the error that
\* PyErr_WarnEx left pending and nothing is pending any more; otherwise it
\* throws nothing, builds no PyError and leaves the error indicator as it
\* was.
C19_EmitEscalates ==
    last.op = "emit" =>
        /\ Len(warnings) = last.callsBefore + 1
        /\ warnings[Len(warnings)] = [cls |-> last.w.pycls, msg |-> last.w.msg]
        /\ last.threw <=> last.escalate
        /\ last.threw =>
              /\ Len(pyerr) = last.objectsBefore + 1
              /\ pyerr[Len(pyerr)].alive
              /\ pyerr[Len(pyerr)].exc_type = last.installed.type
              /\ pyerr[Len(pyerr)].exc_value = last.installed.value
              /\ pyerr[Len(pyerr)].exc_traceback = last.installed.tb
              /\ last.installed.type = last.w.pycls
              /\ ambient = NoError
        /\ ~last.threw =>
              /\ Len(pyerr) = last.objectsBefore
              /\ ambient = last.before

\* Warnings are errors: emit() threw a PyError holding the warning.
C19_Witness ==
    /\ last.op = "emit"
    /\ last.escalate /\ last.threw
    /\ pyerr[Len(pyerr)].exc_type = last.w.pycls
    /\ pyerr[Len(pyerr)].exc_value = last.w.msg
    /\ ambient = NoError

----------------------------------------------------------------------------
(* Properties of OwnSpec                                                   *)

\* C15: the first to_python() on a PyError installs its triple as the
\* pending error and leaves the object with three null handles; a later
\* to_python() on the same object installs and releases nothing again and
\* leaves the error indicator as it was.
C15_RestoreIsIdempotent ==
    [][\A i \in 1..Len(pyerr) :
          OwnRestore(i) =>
              /\ ~Holds(pyerr'[i])
              /\ ledger[i].restores = 0 =>
                    ambient' = [type  |-> pyerr[i].exc_type,
                                value |-> pyerr[i].exc_value,
                                tb    |-> pyerr[i].exc_traceback]
              /\ ledger[i].restores >= 1 =>
                    /\ ledger'[i].handed = ledger[i].handed
                    /\ ledger'[i].released = ledger[i].released
                    /\ ambient' = ambient]_vars

\* The captures that took a pending error over.
Origins == {k \in 1..Len(pyerr) : ledger[k].origin = k}

\* The live objects that hold the triple of capture k.
Owners(k) ==
    {i \in 1..Len(pyerr) :
        pyerr[i].alive /\ Holds(pyerr[i]) /\ ledger[i].origin = k}

\* How often the triple of capture k was handed back by to_python() or
\* released by a destructor, over the objects 1..n.
RECURSIVE Disposals(_, _)
Disposals(k, n) ==
    IF n = 0 THEN 0
    ELSE Disposals(k, n - 1)
           + (IF ledger[n].origin = k
              THEN ledger[n].handed + ledger[n].released ELSE 0)

\* C16: the triple of every capture is either held by exactly one live
\* PyError and not yet disposed of, or held by none and disposed of exactly
\* once, by to_python() or by a destructor; an object built empty disposes
\* of nothing; and a move construction leaves its source without handles.
C16_SingleOwnership ==
    /\ \A k \in Origins :
          Cardinality(Owners(k)) + Disposals(k, Len(pyerr)) = 1
    /\ \A i \in 1..Len(pyerr) :
          ledger[i].origin = 0 =>
              ledger[i].handed = 0 /\ ledger[i].released = 0
    /\ last.op = "move" =>
          /\ ~Holds(pyerr[last.from])
          /\ ledger[last.id].origin = ledger[last.from].origin
                 \/ ledger[last.id].origin = 0

\* A captured triple was moved into a second object, whose destructor
\* released it; the source is alive and empty.
C16_Witness ==
    \E i, j \in 1..Len(pyerr) :
        /\ i # j
        /\ ledger[i].origin = i
        /\ ledger[j].origin = i
        /\ pyerr[i].alive /\ ~Holds(pyerr[i])
        /\ ~pyerr[j].alive
        /\ ledger[j].released = 1
        /\ Disposals(i, Len(pyerr)) = 1

----------------------------------------------------------------------------
(* Properties of CharSpec and StrSpec                                      *)

\* What the character appended by the last operation added to the message.
Appended == SubSeq(err.msg, Len(last.before) + 1, Len(err.msg))

HexDigitsLower ==
    <<48, 49, 50, 51, 52, 53, 54, 55, 56, 57, 97, 98, 99, 100, 101, 102>>

\* The rendering the specification gives for a character that is escaped.
ExpectedEscape(c) ==
    IF c = CH_newline THEN <<CH_backslash, CH_n>>
    ELSE IF c = CH_return THEN <<CH_backslash, CH_r>>
    ELSE IF c = CH_tab THEN <<CH_backslash, CH_t>>
    ELSE IF c = CH_backslash THEN <<CH_backslash, CH_backslash>>
    ELSE IF c = CH_backtick THEN <<CH_backslash, CH_backtick>>
    ELSE <<CH_backslash, CH_x, HexDigitsLower[(c \div 16) + 1],
           HexDigitsLower[(c % 16) + 1]>>

\* C8: appending a character appends \n, \r, \t, \\ or \` for the five named
\* characters, the four characters \xHH (lowercase hex) for any other
\* character that is escaped, and the character itself when it is not
\* escaped; the message so far is kept.
C8_CharRendering ==
    last.op = "append_char" =>
        /\ SubSeq(err.msg, 1, Len(last.before)) = last.before
        /\ Appended = IF Appended # <<last.c>>
                      THEN ExpectedEscape(last.c)
                      ELSE <<last.c>>

\* C9: a character is escaped exactly when it is below 0x20, at or above
\* 0x7F, a backtick or a backslash.
C9_EscapeSet ==
    last.op = "append_char" =>
        ((Appended # <<last.c>>)
            <=> (last.c < 32 \/ last.c >= 127 \/ last.c = CH_backtick
                             \/ last.c = CH_backslash))

\* Reads an escaped string back: a backslash must be followed by a backtick
\* or a backslash and stands for it; a backtick or backslash anywhere else
\* is raw, and the reading yields <<-1>>.
RECURSIVE Unescape(_, _, _)
Unescape(out, i, acc) ==
    IF i > Len(out) THEN acc
    ELSE IF out[i] = CH_backslash
         THEN IF i < Len(out) /\ IsSpecial(out[i + 1])
              THEN Unescape(out, i + 2, Append(acc, out[i + 1]))
              ELSE <<-1>>
         ELSE IF out[i] = CH_backtick THEN <<-1>>
         ELSE Unescape(out, i + 1, Append(acc, out[i]))

\* C10: the result of escape_backticks(s) holds no backtick or backslash
\* outside the two-character sequences backslash-backtick and
\* backslash-backslash; read back, these sequences and the other characters
\* give s, in order; and the result is longer than s by the number of
\* backticks and backslashes of s.
C10_EscapedOutput ==
    last.op = "escape" =>
        /\ Unescape(escOut, 1, <<>>) = escIn
        /\ Len(escOut) = Len(escIn) + CountSpecial(escIn)

\* A string with a backtick, a backslash and another character was escaped.
C10_Witness ==
    /\ last.op = "escape"
    /\ \E i, j, k \in 1..Len(escIn) :
          /\ escIn[i] = CH_backtick
          /\ escIn[j] = CH_backslash
          /\ ~IsSpecial(escIn[k])
    /\ Len(escOut) = Len(escIn) + 2

\* C11: a string that holds no backtick and no backslash comes back from
\* escape_backticks equal to itself.
C11_IdentityWithoutSpecials ==
    (last.op = "escape"
        /\ \A i \in 1..Len(escIn) :
               escIn[i] # CH_backtick /\ escIn[i] # CH_backslash)
        => escOut = escIn

\* A string of letters and blanks was escaped and came back as it was.
C11_Witness ==
    /\ last.op = "escape"
    /\ Len(escIn) >= 2
    /\ \E i, j \in 1..Len(escIn) : escIn[i] = CH_a /\ escIn[j] = CH_space
    /\ \A i \in 1..Len(escIn) :
          escIn[i] # CH_backtick /\ escIn[i] # CH_backslash
    /\ escOut = escIn

\* The rendering the specification gives for a fragment: a string as it
\* is, an integer of any width in decimal, a character by the escaping rule.
CanonicalRendering(f) ==
    CASE f.type = "string" -> f.v
      [] f.type \in {"int32", "int8"} ->
            IF f.v < 0 THEN <<CH_minus>> \o Digits(-f.v) ELSE Digits(f.v)
      [] f.type = "char" ->
            IF f.v < 32 \/ f.v >= 127 \/ f.v = CH_backtick
                        \/ f.v = CH_backslash
            THEN ExpectedEscape(f.v) ELSE <<f.v>>

RECURSIVE CanonicalMessage(_)
CanonicalMessage(frags) ==
    IF frags = <<>> THEN <<>>
    ELSE CanonicalMessage(SubSeq(frags, 1, Len(frags) - 1))
             \o CanonicalRendering(frags[Len(frags)])

\* C12: after any sequence of appends the message of the Error is the
\* concatenation of the canonical renderings of the fragments, in the order
\* of the calls, and its class is the one it was built with; to_string()
\* returns that message and changes neither the message nor the class.
C12_MessageIsConcatenation ==
    last.op \in {"append", "to_string"} =>
        /\ err.msg = CanonicalMessage(last.frags)
        /\ err.pycls = last.pycls
        /\ last.op = "to_string" => escOut = CanonicalMessage(last.frags)

----------------------------------------------------------------------------
(* Properties of Spec, FairSpec and ConvSpec                               *)

DriverDone(w) == wk[w].pc \in {"returned", "threw", "handled", "left"}

AllDriversDone == team.started /\ \A w \in Workers : DriverDone(w)

NoTaskRaised == \A w \in Workers : ~wk[w].raised

C4_Safety ==
    /\ \A t \in Tasks : tasks[t].yielded <= 1
                          /\ tasks[t].executed <= tasks[t].yielded
    /\ (AllDriversDone /\ NoTaskRaised) =>
           \A t \in Tasks : tasks[t].yielded = 1 /\ tasks[t].executed = 1

C4_PollAfterExhaustion ==
    \A w \in Workers :
        (wk[w].pc = "pull" /\ wk'[w].polls = wk[w].polls + 1
                           /\ job.cursor >= NumTasks)
            => /\ wk'[w].task = NoTask
               /\ wk'[w].pc = "returned"
               /\ tasks' = tasks

C5_Positions ==
    \A w \in Workers :
        /\ wk[w].raised => wk[w].pc \in {"threw", "handled", "left"}
        /\ wk[w].pc = "threw" => wk[w].exc # NoException
        /\ (DriverDone(w) /\ ~wk[w].raised) => wk[w].gotNull

C5_NoFurtherCalls ==
    \A w \in Workers :
        wk[w].raised => /\ wk'[w].polls = wk[w].polls
                        /\ wk'[w].execs = wk[w].execs

\* C5: once a task's execute() has thrown in a driver, the driver is left
\* with the exception on its way to the caller, and this driver calls
\* neither get_next_task() nor execute() again; a driver in which no task
\* threw terminates only after get_next_task() returned null.
C5_DriverDoesNotCatch ==
    /\ []C5_Positions
    /\ [][C5_NoFurtherCalls]_vars

\* A task threw in one driver while tasks were still to be handed out; the
\* exception is on its way to the driver's caller.
C5_Witness ==
    \E w \in Workers :
        /\ wk[w].raised /\ wk[w].pc = "threw"
        /\ wk[w].exc # NoException
        /\ job.cursor < NumTasks

C17_Alternation ==
    \A w \in Workers :
        /\ wk[w].polls > 0 => wk[w].asked = w
        /\ wk[w].pc = "pull" => wk[w].polls = wk[w].execs
        /\ wk[w].pc = "exec" =>
              /\ wk[w].task # NoTask
              /\ wk[w].polls = wk[w].execs + 1
        /\ wk[w].pc = "returned" =>
              /\ wk[w].task = NoTask
              /\ wk[w].polls = wk[w].execs + 1
        /\ wk[w].polls - wk[w].execs \in {0, 1}

C17_PollThenExecute ==
    \A w \in Workers :
        /\ wk'[w].polls # wk[w].polls =>
              /\ wk[w].pc = "pull"
              /\ wk'[w].polls = wk[w].polls + 1
              /\ wk'[w].execs = wk[w].execs
              /\ wk'[w].asked = w
        /\ wk'[w].execs # wk[w].execs =>
              /\ wk[w].pc = "exec"
              /\ wk'[w].execs = wk[w].execs + 1
              /\ wk'[w].polls = wk[w].polls
              /\ wk'[w].task = wk[w].task
              /\ tasks'[wk[w].task].executed
                     = tasks[wk[w].task].executed + 1
              /\ \A t \in Tasks \ {wk[w].task} : tasks'[t] = tasks[t]
        /\ wk'[w].task # wk[w].task => wk'[w].polls = wk[w].polls + 1

\* C17: a driver polls get_next_task() with its own thread index and only
\* when it has no unexecuted task; it calls execute() only on the task its
\* latest poll returned, once, before it polls again; so polls and
\* executions of one worker alternate and its tasks run in the order they
\* were pulled.
C17_PerWorkerOrdering ==
    /\ []C17_Alternation
    /\ [][C17_PollThenExecute]_vars

\* A worker has executed two tasks and pulled a third, which it is about
\* to execute.
C17_Witness ==
    \E w \in Workers :
        /\ wk[w].pc = "exec"
        /\ wk[w].execs = 2
        /\ wk[w].polls = 3
        /\ wk[w].asked = w
        /\ tasks[wk[w].task].executed = 0

C18_JobKeepsHandingOut ==
    ~job.overridesAbort =>
        /\ ~job.aborted
        /\ \A w \in Workers :
              wk[w].gotNull => \A t \in Tasks : tasks[t].yielded = 1
        /\ \A t \in Tasks :
              (tasks[t].yielded = 1 /\ tasks[t].executed = 0) =>
                  \E w \in Workers : wk[w].pc = "exec" /\ wk[w].task = t
        /\ (AllDriversDone /\ \E w \in Workers : ~wk[w].raised) =>
              \A t \in Tasks : tasks[t].yielded = 1 /\ tasks[t].executed = 1

C18_AbortChangesNothing ==
    ~job.overridesAbort =>
        /\ job'.abortCalls # job.abortCalls =>
              /\ job'.cursor = job.cursor
              /\ job'.aborted = job.aborted
              /\ tasks' = tasks
              /\ \A w \in Workers :
                    wk[w].pc \in {"pull", "exec"} => wk'[w] = wk[w]
        /\ \A w \in Workers :
              (wk'[w].polls # wk[w].polls /\ job.cursor < NumTasks) =>
                  /\ wk'[w].task = job.cursor + 1
                  /\ wk'[w].pc = "exec"
        /\ \A w \in Workers :
              wk[w].pc = "exec" =>
                  \/ wk'[w] = wk[w]
                  \/ wk'[w].execs = wk[w].execs + 1

\* C18: for a job that does not override abort_execution(), the call
\* changes nothing of the job, of the tasks or of the workers that are
\* polling or executing; get_next_task() goes on handing out the pending
\* tasks, returning null only when all have been handed out; a task that
\* was handed out is executed by the worker that pulled it, which nothing
\* but the end of execute() takes out of the execution; and when a driver
\* has run to a null poll, every task has been executed once.
C18_DefaultAbortDoesNothing ==
    /\ []C18_JobKeepsHandingOut
    /\ [][C18_AbortChangesNothing]_vars

\* abort_execution() has just been called on a job that does not override
\* it, while another worker is executing a task and tasks are still to be
\* handed out.
C18_Witness ==
    /\ ~job.overridesAbort
    /\ job.abortCalls = 1
    /\ job.cursor < NumTasks
    /\ \E w, v \in Workers :
          /\ wk[w].pc = "handled"
          /\ wk[v].pc = "exec"
          /\ tasks[wk[v].task].executed = 0

\* C6: of the exceptions caught in a team only the first is kept and the
\* later ones are dropped; abort_execution() is called once, by the worker
\* whose exception was kept; the kept exception is reported once, when no
\* thread is left in the team, so that the assertion of
\* exception_to_python() does not fire; and a team in which some task threw
\* ends with exactly one report, of the first exception caught.
C6_FirstErrorWins ==
    /\ team.reports <= 1
    /\ last.op = "exception_to_python" =>
          last.nthreads = 0 /\ ~last.flagged /\ last.e = team.first
    /\ team.slot # NoException => team.slot = team.first
    /\ team.captured >= 1 =>
          /\ team.discarded = team.captured - 1
          /\ job.abortCalls = 1
          /\ team.abortBy = team.firstBy
    /\ team.captured = 0 => job.abortCalls = 0 /\ team.slot = NoException
    /\ team.reports = 1 =>
          /\ team.size = 0
          /\ \A w \in Workers : wk[w].pc = "left"
          /\ team.reported = team.first
          /\ team.reported # NoException
    /\ team.joined =>
          (team.reports = 1 <=> \E w \in Workers : wk[w].raised)

\* Two workers faulted; the first exception was reported, the other dropped.
C6_Witness ==
    /\ team.joined
    /\ team.captured = 2 /\ team.discarded = 1
    /\ team.reports = 1
    /\ team.reported = team.first
    /\ job.abortCalls = 1

\* C7 as stated: whenever exception_to_python() runs while the team is not
\* empty, the assertion on the team size is reported.
C7_AlwaysFlagged ==
    (last.op = "exception_to_python" /\ last.nthreads # 0) => last.flagged

\* C7 (amended): in a debug build, whenever exception_to_python() runs
\* while the team is not empty, the assertion on the team size is reported;
\* it is reported in no other case.
C7_FlaggedInDebugBuild ==
    last.op = "exception_to_python" =>
        (last.flagged <=> (last.nthreads # 0 /\ build.debug))

\* A debug build converted an exception while threads were in the team.
C7_Witness ==
    /\ last.op = "exception_to_python"
    /\ last.nthreads # 0
    /\ build.debug
    /\ last.flagged

\* C20: exception_to_python() on an exception that is no Error leaves an
\* error that is already pending as it is; with nothing pending it makes
\* a PyExc_Exception pending whose message is what() of the exception, or
\* "unknown error" when what() is null, empty or made of blanks, tabs,
\* newlines and carriage returns only; either way an error is pending
\* afterwards.
C20_GenericException ==
    (last.op = "exception_to_python" /\ last.e.kind = "std") =>
        /\ ambient.type # NULL
        /\ last.before.type # NULL => ambient = last.before
        /\ last.before.type = NULL =>
              ambient = [type  |-> PyExc_Exception,
                         value |-> IF last.e.what \in {NULL, "", " \t\n\r"}
                                   THEN "unknown error" ELSE last.e.what,
                         tb    |-> NULL]

\* An exception whose what() is blank was converted with nothing pending.
C20_Witness ==
    /\ last.op = "exception_to_python"
    /\ last.e.kind = "std"
    /\ last.e.what = " \t\n\r"
    /\ last.before = NoError
    /\ ambient.value = "unknown error"

====
